---- MODULE Spec2Model ----
(***************************************************************************)
(* Model of the dirty audio core: Sample Buffer and Buffer Vector          *)
(* (src/src/dirty_core/buffer.rs), the Mixer Channel actor                 *)
(* (src/src/dirty_core/channel.rs) and the parts of the Core Orchestrator  *)
(* (src/src/dirty_core/core.rs) the channel talks to.                      *)
(*                                                                         *)
(* Samples are f32 in the program; the model uses small integers, on which *)
(* + and * are exact.  Indices and cursors are 0-based as in the source;   *)
(* TLA+ sequences are 1-based, so element i of a Vec is seq[i + 1].        *)
(* Option<T> is a sequence of length 0 (None) or 1 (Some).                 *)
(***************************************************************************)
EXTENDS Integers, Sequences, FiniteSets, TLC

\* ------------------------------------------------------------------ bounds
MaxLen == 4          \* longest flat sample sequence handed to deinterlace
MaxChannels == 3     \* largest channel count handed to new / deinterlace
MaxBufLen == 3       \* longest Sample Buffer / overdub operand
MaxNextCalls == 7    \* calls of next() made on one Buffer Vector instance
MaxSampleSum == 4    \* largest sample value an overdub may build up

SampleValues == {1, 2}

\* All sequences over S of length at most n.
RECURSIVE SeqsUpTo(_, _)
SeqsUpTo(S, n) ==
    IF n = 0 THEN {<<>>}
    ELSE LET shorter == SeqsUpTo(S, n - 1)
         IN  shorter \cup {Append(s, x) : s \in {t \in shorter : Len(t) = n - 1}, x \in S}

None == <<>>
Some(x) == <<x>>

\* Vec::get / slice::get: Some(element) inside the bounds, None outside.
Get(vec, index) == IF index < Len(vec) THEN Some(vec[index + 1]) ELSE None

\* ------------------------------------------------------------ Sample Buffer
\* Buffer::new(buffer_size): buffer_size default (zero) samples.
BufferNew(buffer_size) == [i \in 1..buffer_size |-> 0]

\* Buffer::write(data): splice(.., data) replaces the whole contents.
BufferWrite(old, data) == data

\* Buffer::_overdub(data): the loop over self.data, from position i on.
\* data.get(i) == None makes `?` return the error at once; the samples
\* already added stay added.
RECURSIVE OverdubFrom(_, _, _)
OverdubFrom(buf, data, i) ==
    IF i >= Len(buf) THEN [ok |-> TRUE, data |-> buf]
    ELSE IF Get(data, i) = None THEN [ok |-> FALSE, data |-> buf]
    ELSE OverdubFrom([buf EXCEPT ![i + 1] = @ + data[i + 1]], data, i + 1)

_overdub(buf, data) == OverdubFrom(buf, data, 0)

\* Buffer::read(): a copy of the contents.
BufferRead(buf) == buf

\* ------------------------------------------------------------ Buffer Vector
\* BuffVec::new(channels): `channels` empty buffers, cursor at (0, 0).
BuffVecNew(channels) ==
    [data |-> [i \in 1..channels |-> BufferNew(0)],
     outer_pointer |-> 0, inner_pointer |-> 0]

\* get_buffer with the index off by one.
get_buffer_off_by_one(b, index) ==
    IF Get(b.data, index + 1) = None THEN [ok |-> FALSE, value |-> <<>>]
    ELSE [ok |-> TRUE, value |-> b.data[index + 2]]

\* BuffVec::get_buffer(index): Err("out of bounds read") outside the vector,
\* otherwise a copy of the channel's samples.
get_buffer(b, index) ==
    IF Get(b.data, index) = None THEN [ok |-> FALSE, value |-> <<>>]
    ELSE [ok |-> TRUE, value |-> BufferRead(b.data[index + 1])]

\* Iterator::step_by(n) on a sequence: elements 0, n, 2n, ...
StepBy(s, n) == [k \in 1..((Len(s) + n - 1) \div n) |-> s[(k - 1) * n + 1]]

\* slice::split_at(mid) panics when mid > len; .1 is the tail from mid on.
SplitAtPanics(data, mid) == mid > Len(data)
SplitAtTail(data, mid) == SubSeq(data, mid + 1, Len(data))

\* BuffVec::deinterlace(data, num_channels): channel i receives
\* data.split_at(i).1 stepped by num_channels; the call panics as soon as
\* one split_at does.
deinterlace(data, num_channels) ==
    IF \E i \in 0..(num_channels - 1) : SplitAtPanics(data, i)
    THEN [ok |-> FALSE, bv |-> BuffVecNew(0)]
    ELSE [ok |-> TRUE,
          bv |-> [data |-> [c \in 1..num_channels |->
                              BufferWrite(BufferNew(0),
                                          StepBy(SplitAtTail(data, c - 1), num_channels))],
                  outer_pointer |-> 0, inner_pointer |-> 0]]

\* get_next with a cursor that goes back to the start once a channel has run
\* out of samples.
RECURSIVE get_next_rewinds(_)
get_next_rewinds(b) ==
    IF Get(b.data, b.outer_pointer) = None
    THEN IF Len(b.data) = 0
         THEN [status |-> "diverge", item |-> None, bv |-> b]
         ELSE get_next_rewinds([b EXCEPT !.inner_pointer = @ + 1, !.outer_pointer = 0])
    ELSE LET item == Get(b.data[b.outer_pointer + 1], b.inner_pointer) IN
         [status |-> "item",
          item |-> item,
          bv |-> IF item = None
                 THEN [b EXCEPT !.outer_pointer = 0, !.inner_pointer = 0]
                 ELSE [b EXCEPT !.outer_pointer = @ + 1]]

\* BuffVec::get_next: status "item" carries the Option returned; with no
\* channel at all the None arm recurses without end and the call never
\* returns (status "diverge").
RECURSIVE get_next(_)
get_next(b) ==
    IF Get(b.data, b.outer_pointer) = None
    THEN IF Len(b.data) = 0
         THEN [status |-> "diverge", item |-> None, bv |-> b]
         ELSE get_next([b EXCEPT !.inner_pointer = @ + 1, !.outer_pointer = 0])
    ELSE [status |-> "item",
          item |-> Get(b.data[b.outer_pointer + 1], b.inner_pointer),
          bv |-> [b EXCEPT !.outer_pointer = @ + 1]]

\* ------------------------------------------------------------------- state
VARIABLES
    bv_state,   \* "none" | "live" | "panicked" (constructor panicked) | "diverged" (next() never returned)
    bv,         \* the Buffer Vector instance: data, outer_pointer, inner_pointer
    bv_args,    \* how the instance was built: via, samples, channels
    yielded,    \* samples next() returned before its first None
    ended,      \* next() has returned None at least once
    lastNext,   \* what the latest next() returned: called, item
    calls,      \* number of next() calls on this instance
    got,        \* a get_buffer call, when it is the latest call on the instance: called, index, before, result
    buffer,     \* a Sample Buffer's data
    od          \* the latest _overdub call on buffer: called, ok, before, operand

VARIABLES
    ch,          \* the Channel's fields: name, volume, panning, input, output, output_system
    ch_pc,       \* where run_channel is: "recv", inside process_audio ("send", "request",
                 \* "await_reply", "self_send"), "terminated" (Quit) or "panicked" (todo!())
    mailbox,     \* channel_rx: the queued ChannelMessages
    task,        \* the blocking task of process_audio: id, batch, tx, src, input, volume
    joined,      \* what the latest spawn_blocking(..).await returned: id, result, and the input it had captured
    bus,         \* _audio_rx: the queued DirtyCoreMessages
    core_alive,  \* the DirtyCore (and with it the receiving end of the bus) exists
    reply,       \* the oneshot of the pending GetOutputSystem: state, handle
    sinkOpen,    \* per sink mailbox: its receiving end exists
    sinkQ,       \* per sink mailbox: the queued Overdub messages
    answered,    \* the latest Get reply sent on a oneshot
    attempts,    \* per NewBuffer id: number of Overdub sends attempted
    failed,      \* ids of the NewBuffer messages whose Overdub send returned an error
    nextId,      \* id the next NewBuffer message gets
    sent,        \* number of messages other actors have sent to the mailbox
    installed,   \* who sent the SetOuptutSystem handled last: "none", "env" or "reconnect"
    latest,      \* per parameter: the value of the Set sent last by another actor (the default if none)
    handled,     \* arrival numbers of the messages run_channel has taken from its mailbox, in order
    quitSeq      \* arrival number of the Quit that ended run_channel (0: none)

VARIABLES
    run_pc,        \* where DirtyCore::run is: "init", "waiting" (both streams play, awaiting ui_rx),
                   \* "returned_ok", "returned_err", "play_err", "build_panic"
    gui_pc,        \* the DirtyUI: "running", "exited" (on_exit ran), "dropped", "panicked"
    ui_q,          \* ui_rx: the queued UIMessages
    ui_received,   \* number of UIMessages run has received
    registry,      \* volume and panning of the first Channel of DirtyCore::channels
    poisoned,      \* the Mutex of DirtyCore::channels is poisoned
    num_channels,  \* config.channels as read by run (0 before)
    ocb,           \* the latest output callback: called, len, result, data, gain
    ocb_alive,     \* the output stream's callback thread has not panicked
    icb,           \* the latest input callback: "none", "ok" or "panic"
    lock,          \* who holds the Mutex of DirtyCore::channels: "free", "callback", "gui"
    ocb_pc,        \* where the running output callback is: "idle", "lock", "locked", "scaled"
    ocb_run,       \* the running output callback: len, input, gain
    gui_upd        \* where DirtyUI::update is: "idle", "lock", "volume", "panning"

VARIABLE
    producer       \* another actor sending to the channel's mailbox: "idle", "waiting"
                   \* (inside send().await on a full mailbox) or "failed" (send returned Err)

envVars == <<producer>>

VARIABLE
    pan2           \* the channel's panning in a second run that receives the same messages
                   \* with other values in its SetPanning messages

shadowVars == <<pan2>>

lockVars == <<lock, ocb_pc, ocb_run, gui_upd>>

coreVars == <<run_pc, gui_pc, ui_q, ui_received, registry, poisoned, num_channels,
              ocb, ocb_alive, icb, lock, ocb_pc, ocb_run, gui_upd>>

chVars == <<ch, ch_pc, mailbox, task, joined, bus, core_alive, reply,
            sinkOpen, sinkQ, answered, attempts, failed, nextId, sent, installed,
            latest, handled, quitSeq>>

vars == <<bv_state, bv, bv_args, yielded, ended, lastNext, calls, got, buffer, od,
          ch, ch_pc, mailbox, task, joined, bus, core_alive, reply,
          sinkOpen, sinkQ, answered, attempts, failed, nextId, sent, installed,
          latest, handled, quitSeq,
          run_pc, gui_pc, ui_q, ui_received, registry, poisoned, num_channels,
          ocb, ocb_alive, icb, lock, ocb_pc, ocb_run, gui_upd, producer, pan2>>

bvVars == <<bv_state, bv, bv_args, yielded, ended, lastNext, calls, got>>
bufVars == <<buffer, od>>

NoGot == [called |-> FALSE, index |-> 0, before |-> BuffVecNew(0),
          result |-> [ok |-> FALSE, value |-> <<>>]]
NoOverdub == [called |-> FALSE, ok |-> FALSE, before |-> <<>>, operand |-> <<>>]
NoNext == [called |-> FALSE, item |-> None]

InitBuffVec ==
    /\ bv_state = "none"
    /\ bv = BuffVecNew(0)
    /\ bv_args = [via |-> "none", samples |-> <<>>, channels |-> 0]
    /\ yielded = <<>>
    /\ ended = FALSE
    /\ lastNext = NoNext
    /\ calls = 0
    /\ got = NoGot

InitBuffer ==
    /\ buffer = BufferNew(0)
    /\ od = NoOverdub

\* --------------------------------------------------- Buffer Vector actions
FreshCursor ==
    /\ yielded' = <<>>
    /\ ended' = FALSE
    /\ lastNext' = NoNext
    /\ calls' = 0
    /\ got' = NoGot

\* let b = BuffVec::new(channels)
BVNew ==
    \E channels \in 0..MaxChannels :
        /\ bv_state = "none"
        /\ bv_state' = "live"
        /\ bv' = BuffVecNew(channels)
        /\ bv_args' = [via |-> "new", samples |-> <<>>, channels |-> channels]
        /\ FreshCursor
        /\ UNCHANGED <<bufVars, chVars, coreVars, envVars, shadowVars>>

\* let b = BuffVec::deinterlace(&data, num_channels)
BVDeinterlace ==
    \E data \in SeqsUpTo(SampleValues, MaxLen), channels \in 0..MaxChannels :
        LET r == deinterlace(data, channels) IN
        /\ bv_state = "none"
        /\ bv_state' = IF r.ok THEN "live" ELSE "panicked"
        /\ bv' = r.bv
        /\ bv_args' = [via |-> "deinterlace", samples |-> data, channels |-> channels]
        /\ FreshCursor
        /\ UNCHANGED <<bufVars, chVars, coreVars, envVars, shadowVars>>

\* b.next()
BVNext ==
    /\ bv_state = "live"
    /\ calls < MaxNextCalls
    /\ LET r == get_next(bv) IN
       /\ bv_state' = IF r.status = "diverge" THEN "diverged" ELSE "live"
       /\ bv' = r.bv
       /\ calls' = calls + 1
       /\ lastNext' = [called |-> r.status = "item", item |-> r.item]
       /\ ended' = (ended \/ (r.status = "item" /\ r.item = None))
       /\ yielded' = IF ~ended /\ r.status = "item" /\ r.item # None
                     THEN Append(yielded, r.item[1]) ELSE yielded
    /\ got' = NoGot
    /\ UNCHANGED bv_args
    /\ UNCHANGED <<bufVars, chVars, coreVars, envVars, shadowVars>>

\* b.get_buffer(index): takes &self, so the instance is left as it is.
BVGetBuffer ==
    \E index \in 0..(MaxChannels + 1) :
        /\ bv_state = "live"
        /\ got' = [called |-> TRUE, index |-> index, before |-> bv,
                   result |-> get_buffer(bv, index)]
        /\ UNCHANGED <<bv_state, bv, bv_args, yielded, ended, lastNext, calls>>
        /\ UNCHANGED <<bufVars, chVars, coreVars, envVars, shadowVars>>

NextBuffVec == BVNew \/ BVDeinterlace \/ BVNext \/ BVGetBuffer

\* --------------------------------------------------- Sample Buffer actions
\* let buffer = Buffer::new(buffer_size)
BufNew ==
    \E buffer_size \in 0..MaxBufLen :
        /\ buffer' = BufferNew(buffer_size)
        /\ od' = NoOverdub
        /\ UNCHANGED <<bvVars, chVars, coreVars, envVars, shadowVars>>

\* buffer.write(data)
BufWrite ==
    \E data \in SeqsUpTo(SampleValues, MaxBufLen) :
        /\ buffer' = BufferWrite(buffer, data)
        /\ od' = NoOverdub
        /\ UNCHANGED <<bvVars, chVars, coreVars, envVars, shadowVars>>

\* buffer._overdub(data)
BufOverdub ==
    \E data \in SeqsUpTo(SampleValues, MaxBufLen) :
        LET r == _overdub(buffer, data) IN
        /\ \A i \in 1..Len(r.data) : r.data[i] <= MaxSampleSum
        /\ buffer' = r.data
        /\ od' = [called |-> TRUE, ok |-> r.ok, before |-> buffer, operand |-> data]
        /\ UNCHANGED <<bvVars, chVars, coreVars, envVars, shadowVars>>

NextBuffer == BufNew \/ BufWrite \/ BufOverdub

\* ============================================================ Mixer Channel
\* Program constants.
ChannelCapacity == 16   \* Channel::new: channel(16)
BusCapacity == 128      \* DirtyCore::new_default: channel::<DirtyCoreMessage>(128)
SinkCapacity == 128     \* OutputSystem::new: channel(128)

\* Bounds of the environment.
MaxSent == 4            \* messages other actors send to the channel's mailbox
MaxQueued == 2          \* messages other actors keep queued in the mailbox at once

SinkIds == {1, 2}
NameValues == {"kick"}
VolumeValues == {0, 2}
PanValues == {2}
OtherPanValues == {-1}

\* enum AudioIO / enum PhysicalAudioIO
IONone == [io |-> "None"]
Mono(c) == [io |-> "Mono", c |-> c]
Stereo(l, r) == [io |-> "Stereo", l |-> l, r |-> r]
InputValues == {IONone, Mono(0), Stereo(1, 0)}
OutputValues == {Stereo(0, 1)}

\* Buffer Vectors the input side produces and hands over in NewBuffer.
BuffVecValues ==
    {deinterlace(<<1, 2, 3, 4>>, 2).bv, deinterlace(<<2>>, 1).bv, deinterlace(<<>>, 0).bv}

\* The parameters a new Channel starts with (Channel::new).
DefaultParams ==
    [name |-> "", volume |-> 1, panning |-> 0, input |-> IONone, output |-> IONone]

NoTask == [id |-> 0, batch |-> <<>>, batch2 |-> <<>>, tx |-> 0, src |-> BuffVecNew(0),
           input |-> IONone, volume |-> 0, expect |-> DefaultParams]
NoReply == [state |-> "none", handle |-> 0]

\* Channel::new(audio_system)
ChannelNew ==
    [name |-> "", volume |-> 1, panning |-> 0,
     input |-> IONone, output |-> IONone, output_system |-> None]

InitChannel ==
    /\ ch = ChannelNew
    /\ ch_pc = "recv"
    /\ mailbox = <<>>
    /\ task = NoTask
    /\ joined = [id |-> 0, result |-> "none", input |-> IONone, expect |-> DefaultParams]
    /\ bus = <<>>
    /\ core_alive = TRUE
    /\ reply = NoReply
    /\ sinkOpen = [s \in SinkIds |-> TRUE]
    /\ sinkQ = [s \in SinkIds |-> <<>>]
    /\ answered = [type |-> "none"]
    /\ attempts = [i \in 1..MaxSent |-> 0]
    /\ failed = {}
    /\ nextId = 1
    /\ sent = 0
    /\ installed = "none"
    /\ latest = DefaultParams
    /\ handled = <<>>
    /\ quitSeq = 0
    /\ producer = "idle"
    /\ pan2 = ChannelNew.panning

\* DirtyCore::new_default and DirtyUI::new: one default Channel in the
\* registry, an empty UI channel, run not yet called.
NoCallback == [called |-> FALSE, len |-> 0, result |-> "none", data |-> <<>>, gain |-> 0]

NoRun == [len |-> 0, input |-> <<>>, gain |-> None]

InitCore ==
    /\ run_pc = "init"
    /\ gui_pc = "running"
    /\ ui_q = <<>>
    /\ ui_received = 0
    /\ registry = [volume |-> ChannelNew.volume, panning |-> ChannelNew.panning]
    /\ poisoned = FALSE
    /\ num_channels = 0
    /\ ocb = NoCallback
    /\ ocb_alive = TRUE
    /\ icb = "none"
    /\ lock = "free"
    /\ ocb_pc = "idle"
    /\ ocb_run = NoRun
    /\ gui_upd = "idle"

Init == InitBuffVec /\ InitBuffer /\ InitChannel /\ InitCore

\* ------------------------------------------------------------ other actors
\* The messages a holder of the channel's Sender can send (enum ChannelMessage).
\* The oneshot of a Get is the requester's; the model keeps the reply in `answered`.
SetMessages ==
    {[type |-> "SetName", name |-> n] : n \in NameValues}
    \cup {[type |-> "SetVolume", volume |-> v] : v \in VolumeValues}
    \cup {[type |-> "SetPanning", panning |-> p] : p \in PanValues}
    \cup {[type |-> "SetInput", input |-> i] : i \in InputValues}
    \cup {[type |-> "SetOutput", output |-> o] : o \in OutputValues}
    \cup {[type |-> "SetOuptutSystem", sender |-> s, origin |-> "env"] : s \in SinkIds}
GetMessages ==
    {[type |-> "GetName"], [type |-> "GetVolume"], [type |-> "GetPanning"],
     [type |-> "GetInput"], [type |-> "GetOutput"]}
ControlMessages == {[type |-> "Quit"], [type |-> "RegisterMaster"]}
BufferMessages == {[type |-> "NewBuffer", id |-> nextId, data |-> d] : d \in BuffVecValues}
EnvMessages == SetMessages \cup GetMessages \cup ControlMessages \cup BufferMessages

\* Once run_channel has returned or panicked the Channel, and with it
\* channel_rx, is dropped: the mailbox is closed and a send fails.
MailboxOpen == ch_pc \notin {"terminated", "panicked"}

\* The parameters after a Set message of another actor; other messages leave
\* them alone.
AfterSet(params, msg) ==
    CASE msg.type = "SetName" -> [params EXCEPT !.name = msg.name]
      [] msg.type = "SetVolume" -> [params EXCEPT !.volume = msg.volume]
      [] msg.type = "SetPanning" -> [params EXCEPT !.panning = msg.panning]
      [] msg.type = "SetInput" -> [params EXCEPT !.input = msg.input]
      [] msg.type = "SetOutput" -> [params EXCEPT !.output = msg.output]
      [] OTHER -> params

\* A message as it enters the mailbox, stamped with its arrival number (seq)
\* and with the parameters set by the Sets sent ahead of it (expect).
Stamped(msg) ==
    [f \in DOMAIN msg \cup {"seq", "expect"} |->
        IF f = "seq" THEN sent + 1 ELSE IF f = "expect" THEN latest ELSE msg[f]]

\* channel_tx.send(msg).await by another actor.
Send ==
    \E msg \in EnvMessages :
        /\ MailboxOpen
        /\ sent < MaxSent
        /\ Len(mailbox) < MaxQueued
        /\ Len(mailbox) < ChannelCapacity
        /\ mailbox' = Append(mailbox, Stamped(msg))
        /\ sent' = sent + 1
        /\ nextId' = IF msg.type = "NewBuffer" THEN nextId + 1 ELSE nextId
        /\ latest' = AfterSet(latest, msg)
        /\ UNCHANGED <<ch, ch_pc, task, joined, bus, core_alive, reply,
                       sinkOpen, sinkQ, answered, attempts, failed, installed,
                       handled, quitSeq>>
        /\ UNCHANGED <<bvVars, bufVars, coreVars, envVars, shadowVars>>

\* The receiving end of a sink mailbox is dropped (OutputSystem::start consumes
\* the OutputSystem and returns only its Sender): the mailbox closes and the
\* messages still queued in it are dropped.
SinkClose ==
    \E s \in SinkIds :
        /\ sinkOpen[s]
        /\ sinkOpen' = [sinkOpen EXCEPT ![s] = FALSE]
        /\ sinkQ' = [sinkQ EXCEPT ![s] = <<>>]
        /\ UNCHANGED <<ch, ch_pc, mailbox, task, joined, bus, core_alive, reply,
                       answered, attempts, failed, nextId, sent, installed, latest>>
        /\ UNCHANGED <<handled, quitSeq>>
        /\ UNCHANGED <<bvVars, bufVars, coreVars, envVars, shadowVars>>

\* The DirtyCore is dropped: _audio_rx goes with it, the bus closes and the
\* requests still queued in it are dropped together with their oneshot Senders.
CoreDrop ==
    /\ core_alive
    /\ core_alive' = FALSE
    /\ bus' = <<>>
    /\ reply' = IF reply.state = "pending" THEN [reply EXCEPT !.state = "dropped"] ELSE reply
    /\ UNCHANGED <<ch, ch_pc, mailbox, task, joined, sinkOpen, sinkQ,
                   answered, attempts, failed, nextId, sent, installed, latest>>
    /\ UNCHANGED <<handled, quitSeq>>
    /\ UNCHANGED <<bvVars, bufVars, coreVars, envVars, shadowVars>>

\* ------------------------------------------------------------- run_channel
\* let message = self.channel_rx.recv().await.unwrap(); match message { t => ..
Receive(t) ==
    /\ ch_pc = "recv"
    /\ Len(mailbox) > 0
    /\ Head(mailbox).type = t
    /\ handled' = Append(handled, Head(mailbox).seq)
    /\ quitSeq' = IF t = "Quit" THEN Head(mailbox).seq ELSE quitSeq

\* What a handler that only touches the Channel's fields leaves alone.
HandlerFrame ==
    /\ UNCHANGED <<task, joined, bus, core_alive, reply, sinkOpen, sinkQ,
                   attempts, failed, nextId, sent, installed, latest>>
    /\ UNCHANGED <<bvVars, bufVars, coreVars, envVars, shadowVars>>

\* A Quit that is acted on as soon as it is anywhere in the mailbox.
HandleQuit_preempts ==
    /\ ch_pc = "recv"
    /\ \E k \in 1..Len(mailbox) :
          /\ mailbox[k].type = "Quit"
          /\ handled' = Append(handled, mailbox[k].seq)
          /\ quitSeq' = mailbox[k].seq
    /\ ch_pc' = "terminated"
    /\ mailbox' = <<>>
    /\ UNCHANGED <<ch, answered>>
    /\ HandlerFrame

\* ChannelMessage::Quit => break; run_channel returns and drops the Channel.
HandleQuit ==
    /\ Receive("Quit")
    /\ ch_pc' = "terminated"
    /\ mailbox' = <<>>
    /\ UNCHANGED <<ch, answered>>
    /\ HandlerFrame

HandleGetName ==
    /\ Receive("GetName")
    /\ mailbox' = Tail(mailbox)
    /\ answered' = [type |-> "Name", name |-> ch.name,
                    expect |-> Head(mailbox).expect.name]
    /\ UNCHANGED <<ch, ch_pc>>
    /\ HandlerFrame

HandleSetName ==
    /\ Receive("SetName")
    /\ mailbox' = Tail(mailbox)
    /\ ch' = [ch EXCEPT !.name = Head(mailbox).name]
    /\ UNCHANGED <<ch_pc, answered>>
    /\ HandlerFrame

HandleGetVolume ==
    /\ Receive("GetVolume")
    /\ mailbox' = Tail(mailbox)
    /\ answered' = [type |-> "Volume", volume |-> ch.volume,
                    expect |-> Head(mailbox).expect.volume]
    /\ UNCHANGED <<ch, ch_pc>>
    /\ HandlerFrame

\* A SetVolume that is taken from the mailbox and not stored.
HandleSetVolume_dropped ==
    /\ Receive("SetVolume")
    /\ mailbox' = Tail(mailbox)
    /\ UNCHANGED <<ch, ch_pc, answered>>
    /\ HandlerFrame

HandleSetVolume ==
    /\ Receive("SetVolume")
    /\ mailbox' = Tail(mailbox)
    /\ ch' = [ch EXCEPT !.volume = Head(mailbox).volume]
    /\ UNCHANGED <<ch_pc, answered>>
    /\ HandlerFrame

HandleGetPanning ==
    /\ Receive("GetPanning")
    /\ mailbox' = Tail(mailbox)
    /\ answered' = [type |-> "Panning", panning |-> ch.panning,
                    expect |-> Head(mailbox).expect.panning]
    /\ UNCHANGED <<ch, ch_pc>>
    /\ HandlerFrame

\* The second run's message carries another value.
HandleSetPanning ==
    /\ Receive("SetPanning")
    /\ mailbox' = Tail(mailbox)
    /\ ch' = [ch EXCEPT !.panning = Head(mailbox).panning]
    /\ \E other \in OtherPanValues : pan2' = other
    /\ UNCHANGED <<ch_pc, answered>>
    /\ UNCHANGED <<task, joined, bus, core_alive, reply, sinkOpen, sinkQ,
                   attempts, failed, nextId, sent, installed, latest>>
    /\ UNCHANGED <<bvVars, bufVars, coreVars, envVars>>

HandleGetInput ==
    /\ Receive("GetInput")
    /\ mailbox' = Tail(mailbox)
    /\ answered' = [type |-> "Input", input |-> ch.input,
                    expect |-> Head(mailbox).expect.input]
    /\ UNCHANGED <<ch, ch_pc>>
    /\ HandlerFrame

HandleSetInput ==
    /\ Receive("SetInput")
    /\ mailbox' = Tail(mailbox)
    /\ ch' = [ch EXCEPT !.input = Head(mailbox).input]
    /\ UNCHANGED <<ch_pc, answered>>
    /\ HandlerFrame

HandleGetOutput ==
    /\ Receive("GetOutput")
    /\ mailbox' = Tail(mailbox)
    /\ answered' = [type |-> "Output", output |-> ch.output,
                    expect |-> Head(mailbox).expect.output]
    /\ UNCHANGED <<ch, ch_pc>>
    /\ HandlerFrame

HandleSetOutput ==
    /\ Receive("SetOutput")
    /\ mailbox' = Tail(mailbox)
    /\ ch' = [ch EXCEPT !.output = Head(mailbox).output]
    /\ UNCHANGED <<ch_pc, answered>>
    /\ HandlerFrame

\* ChannelMessage::SetOuptutSystem(sender) => self.output_system = Some(sender)
HandleSetOuptutSystem ==
    /\ Receive("SetOuptutSystem")
    /\ mailbox' = Tail(mailbox)
    /\ ch' = [ch EXCEPT !.output_system = Some(Head(mailbox).sender)]
    /\ installed' = Head(mailbox).origin
    /\ UNCHANGED <<ch_pc, answered>>
    /\ UNCHANGED <<task, joined, bus, core_alive, reply, sinkOpen, sinkQ,
                   attempts, failed, nextId, sent, latest>>
    /\ UNCHANGED <<bvVars, bufVars, coreVars, envVars, shadowVars>>

\* ChannelMessage::RegisterMaster(_sender) => todo!(): run_channel panics and
\* the Channel is dropped while unwinding.
HandleRegisterMaster ==
    /\ Receive("RegisterMaster")
    /\ ch_pc' = "panicked"
    /\ mailbox' = <<>>
    /\ UNCHANGED <<ch, answered>>
    /\ HandlerFrame

\* ----------------------------------------------------------- process_audio
\* match input { None => None, Hardware(Mono(c)) => Some(get_buffer(c).unwrap()),
\*               Hardware(Stereo(l, _r)) => Some(get_buffer(l).unwrap()) }.unwrap()
\* ok = FALSE: one of the unwraps panicked inside the blocking task.
ResolveInput(input, data) ==
    CASE input.io = "None" -> [ok |-> FALSE, value |-> <<>>]
      [] input.io = "Mono" -> get_buffer(data, input.c)
      [] input.io = "Stereo" -> get_buffer(data, input.l)

\* The gain pass with += in the place of *=.
ApplyGain_adds(input_data, channel_volume) ==
    [i \in 1..Len(input_data) |-> input_data[i] + channel_volume]

\* input_data.iter_mut().for_each(|s| *s *= channel_volume)
ApplyGain(input_data, channel_volume) ==
    [i \in 1..Len(input_data) |-> input_data[i] * channel_volume]

\* The gain captured from the pan field.
channel_volume_from_pan(channel) == channel.panning

\* let channel_volume = self.volume;
channel_volume(channel) == channel.volume

\* The Channel of the second run: it has handled the same messages, so it
\* differs in its panning only.
SecondRun == [ch EXCEPT !.panning = pan2]

\* A panic of the blocking task that takes run_channel down with it.
OnTaskPanic_propagates == "panicked"

\* Where run_channel goes when the blocking task of process_audio panicked:
\* `let _ = spawn_blocking(..).await` discards the JoinError, process_audio
\* returns and the loop receives again.
OnTaskPanic == "recv"

\* NewBuffer(data) => self.process_audio(data).await, up to the first await
\* inside the blocking task.  A panic of the task is caught by spawn_blocking
\* and comes back as a JoinError, which `let _ =` discards.
HandleNewBuffer ==
    /\ Receive("NewBuffer")
    /\ mailbox' = Tail(mailbox)
    /\ LET msg == Head(mailbox)
           in == ResolveInput(ch.input, msg.data)
       IN  IF ~in.ok
           THEN /\ joined' = [id |-> msg.id, result |-> "panic", input |-> ch.input,
                           expect |-> msg.expect]
                /\ ch_pc' = OnTaskPanic
                /\ UNCHANGED task
           ELSE IF ch.output_system = None
           THEN /\ joined' = [id |-> msg.id, result |-> "ok", input |-> ch.input,
                           expect |-> msg.expect]
                /\ UNCHANGED <<ch_pc, task>>
           ELSE /\ task' = [id |-> msg.id,
                            batch |-> ApplyGain(in.value, channel_volume(ch)),
                            batch2 |-> ApplyGain(in.value, channel_volume(SecondRun)),
                            tx |-> ch.output_system[1],
                            src |-> msg.data, input |-> ch.input, volume |-> ch.volume,
                            expect |-> msg.expect]
                /\ ch_pc' = "send"
                /\ UNCHANGED joined
    /\ UNCHANGED <<ch, answered, bus, core_alive, reply, sinkOpen, sinkQ,
                   attempts, failed, nextId, sent, installed, latest>>
    /\ UNCHANGED <<bvVars, bufVars, coreVars, envVars, shadowVars>>

\* A failed send that is tried again.
OnSendErr_retry == "send"

\* Where the task goes when tx.send(Overdub(..)).await returned an error: the
\* reconnect branch; the batch has been moved into the failed send and is gone.
OnSendErr == "request"

\* tx.send(OutputSystemMessage::Overdub(input_data)).await: an error when the
\* sink mailbox is closed, queued when it has room, waiting while it is full.
TaskSend ==
    /\ ch_pc = "send"
    /\ attempts' = [attempts EXCEPT ![task.id] = @ + 1]
    /\ IF ~sinkOpen[task.tx]
       THEN /\ failed' = failed \cup {task.id}
            /\ ch_pc' = OnSendErr
            /\ UNCHANGED <<sinkQ, joined, task>>
       ELSE /\ Len(sinkQ[task.tx]) < SinkCapacity
            /\ sinkQ' = [sinkQ EXCEPT ![task.tx] =
                           Append(@, [id |-> task.id, batch |-> task.batch,
                                      batch2 |-> task.batch2,
                                      src |-> task.src, input |-> task.input,
                                      volume |-> task.volume, expect |-> task.expect])]
            /\ joined' = [id |-> task.id, result |-> "ok", input |-> task.input,
                 expect |-> task.expect]
            /\ ch_pc' = "recv"
            /\ task' = NoTask
            /\ UNCHANGED failed
    /\ UNCHANGED <<ch, mailbox, bus, core_alive, reply, sinkOpen, answered,
                   nextId, sent, installed, latest>>
    /\ UNCHANGED <<handled, quitSeq>>
    /\ UNCHANGED <<bvVars, bufVars, coreVars, envVars, shadowVars>>

\* audio_system.send(DirtyCoreMessage::GetOutputSystem(sender)).await; its
\* result is discarded.  On a closed bus the message comes back in the error
\* and is dropped, and the oneshot Sender with it.
TaskRequest ==
    /\ ch_pc = "request"
    /\ IF core_alive
       THEN /\ Len(bus) < BusCapacity
            /\ bus' = Append(bus, [type |-> "GetOutputSystem"])
            /\ reply' = [state |-> "pending", handle |-> 0]
       ELSE /\ reply' = [state |-> "dropped", handle |-> 0]
            /\ UNCHANGED bus
    /\ ch_pc' = "await_reply"
    /\ UNCHANGED <<ch, mailbox, task, joined, core_alive, sinkOpen, sinkQ,
                   answered, attempts, failed, nextId, sent, installed, latest>>
    /\ UNCHANGED <<handled, quitSeq>>
    /\ UNCHANGED <<bvVars, bufVars, coreVars, envVars, shadowVars>>

\* let new_output_system = reciever.await.unwrap(): waits while the oneshot
\* is pending, panics (the task ends with a JoinError) when its Sender was
\* dropped, goes on to the send to self_address when it was answered.
TaskAwaitReply ==
    /\ ch_pc = "await_reply"
    /\ reply.state \in {"dropped", "answered"}
    /\ IF reply.state = "dropped"
       THEN /\ joined' = [id |-> task.id, result |-> "panic", input |-> task.input,
                 expect |-> task.expect]
            /\ ch_pc' = "recv"
            /\ task' = NoTask
            /\ reply' = NoReply
       ELSE /\ ch_pc' = "self_send"
            /\ UNCHANGED <<joined, task, reply>>
    /\ UNCHANGED <<ch, mailbox, bus, core_alive, sinkOpen, sinkQ,
                   answered, attempts, failed, nextId, sent, installed, latest>>
    /\ UNCHANGED <<handled, quitSeq>>
    /\ UNCHANGED <<bvVars, bufVars, coreVars, envVars, shadowVars>>

\* self_address.send(ChannelMessage::SetOuptutSystem(new_output_system)).await:
\* queued in the channel's own mailbox when it has room, waiting while it is
\* full; then the task ends and process_audio returns.
TaskSelfSend ==
    /\ ch_pc = "self_send"
    /\ Len(mailbox) < ChannelCapacity
    /\ mailbox' = Append(mailbox, [type |-> "SetOuptutSystem", sender |-> reply.handle,
                                   origin |-> "reconnect", seq |-> 0, expect |-> latest])
    /\ joined' = [id |-> task.id, result |-> "ok", input |-> task.input,
                 expect |-> task.expect]
    /\ ch_pc' = "recv"
    /\ task' = NoTask
    /\ reply' = NoReply
    /\ UNCHANGED <<ch, bus, core_alive, sinkOpen, sinkQ,
                   answered, attempts, failed, nextId, sent, installed, latest>>
    /\ UNCHANGED <<handled, quitSeq>>
    /\ UNCHANGED <<bvVars, bufVars, coreVars, envVars, shadowVars>>

\* The steps of the channel's own task.  TaskSelfSend is not among them: no
\* code receives from _audio_rx, so the oneshot is never answered and the
\* send to self_address is never reached.
ChannelStep ==
    \/ HandleQuit \/ HandleGetName \/ HandleSetName \/ HandleGetVolume
    \/ HandleSetVolume \/ HandleGetPanning \/ HandleSetPanning
    \/ HandleGetInput \/ HandleSetInput \/ HandleGetOutput \/ HandleSetOutput
    \/ HandleSetOuptutSystem \/ HandleRegisterMaster \/ HandleNewBuffer
    \/ TaskSend \/ TaskRequest \/ TaskAwaitReply

NextChannel == ChannelStep \/ Send \/ SinkClose \/ CoreDrop

\* ------------------------------------------------------- a flooding producer
MaxFlood == 20          \* messages the producer sends

\* What the producer sends: it routes the channel from hardware channel 0 to
\* sink 1, submits one batch, and then sends SetName over and over.
Script(n) ==
    CASE n = 1 -> [type |-> "SetInput", input |-> Mono(0)]
      [] n = 2 -> [type |-> "SetOuptutSystem", sender |-> 1, origin |-> "env"]
      [] n = 3 -> [type |-> "NewBuffer", id |-> nextId, data |-> deinterlace(<<2>>, 1).bv]
      [] OTHER -> [type |-> "SetName", name |-> "kick"]

\* The outcome of channel_tx.send(msg).await when it is polled: Err on a
\* closed mailbox, queued when there is room, waiting otherwise.
PollSend(msg) ==
    IF ~MailboxOpen
    THEN /\ producer' = "failed"
         /\ UNCHANGED <<mailbox, sent, nextId, latest>>
    ELSE IF Len(mailbox) < ChannelCapacity
    THEN /\ mailbox' = Append(mailbox, Stamped(msg))
         /\ sent' = sent + 1
         /\ nextId' = IF msg.type = "NewBuffer" THEN nextId + 1 ELSE nextId
         /\ latest' = AfterSet(latest, msg)
         /\ producer' = "idle"
    ELSE /\ producer' = "waiting"
         /\ UNCHANGED <<mailbox, sent, nextId, latest>>

ProducerFrame ==
    /\ UNCHANGED <<ch, ch_pc, task, joined, bus, core_alive, reply,
                   sinkOpen, sinkQ, answered, attempts, failed, installed,
                   handled, quitSeq>>
    /\ UNCHANGED <<bvVars, bufVars, coreVars, shadowVars>>

\* The producer calls channel_tx.send(Script(sent + 1)).await.
ProducerSend ==
    /\ producer = "idle"
    /\ sent < MaxFlood
    /\ PollSend(Script(sent + 1))
    /\ ProducerFrame

\* The waiting send is woken: the mailbox has room again or was closed.
ProducerResume ==
    /\ producer = "waiting"
    /\ Len(mailbox) < ChannelCapacity \/ ~MailboxOpen
    /\ PollSend(Script(sent + 1))
    /\ ProducerFrame

\* The channel's steps on the producer's messages.
FloodStep ==
    \/ HandleSetName \/ HandleSetInput \/ HandleSetOuptutSystem \/ HandleNewBuffer
    \/ TaskSend \/ TaskRequest \/ TaskAwaitReply

NextFlood == FloodStep \/ ProducerSend \/ ProducerResume \/ SinkClose \/ CoreDrop

\* ------------------------------------------------- an answering orchestrator
\* The orchestrator takes the GetOutputSystem request at the head of its bus
\* and sends the handle of its output sink on the request's oneshot.
CoreAnswer ==
    /\ core_alive
    /\ Len(bus) > 0
    /\ Head(bus).type = "GetOutputSystem"
    /\ reply.state = "pending"
    /\ bus' = Tail(bus)
    /\ \E h \in SinkIds : reply' = [state |-> "answered", handle |-> h]
    /\ UNCHANGED <<ch, ch_pc, mailbox, task, joined, core_alive, sinkOpen, sinkQ,
                   answered, attempts, failed, nextId, sent, installed, latest>>
    /\ UNCHANGED <<handled, quitSeq>>
    /\ UNCHANGED <<bvVars, bufVars, coreVars, envVars, shadowVars>>

\* The channel's steps when its reconnect request is answered.
ReconnectStep == FloodStep \/ TaskSelfSend

NextReconnect ==
    ReconnectStep \/ CoreAnswer \/ ProducerSend \/ ProducerResume \/ SinkClose

\* ======================================================= Core Orchestrator
UICapacity == 16        \* DirtyUI::new: channel(16)

MaxFrames == 2          \* frames per hardware callback
SliderVolumes == {0, 1}       \* Slider::new(&mut self.volume, 0.0..=1.)
SliderPans == {-1, 0, 1}      \* Slider::new(&mut self.panning, -1.0..=1.0)

\* let output_buffers = Arc::new(Mutex::new(BuffVec::new(num_channels))); no
\* code writes to it afterwards.
OutputBuffers == BuffVecNew(num_channels)

\* Iterator::collect on a Buffer Vector: next() until the first None.
RECURSIVE Collect(_)
Collect(b) ==
    LET r == get_next(b) IN
    IF r.status = "diverge" THEN [ok |-> FALSE, items |-> <<>>]
    ELSE IF r.item = None THEN [ok |-> TRUE, items |-> <<>>]
    ELSE LET rest == Collect(r.bv) IN
         [ok |-> rest.ok, items |-> <<r.item[1]>> \o rest.items]

\* run returning Ok(()) whatever recv() gave.
RunResult_ignores(message) == "returned_ok"

\* ui_rx.recv().await.context("ui tx dropped")?; Ok(())
RunResult(message) == IF message = None THEN "returned_err" ELSE "returned_ok"

\* DirtyCore::run up to the await: reads config.channels, builds both streams
\* (.expect panics when a build fails) and plays them (`?` returns the error).
RunStart ==
    /\ run_pc = "init"
    /\ \E c \in 1..MaxChannels, outcome \in {"waiting", "play_err", "build_panic"} :
          /\ num_channels' = c
          /\ run_pc' = outcome
    /\ UNCHANGED <<gui_pc, ui_q, ui_received, registry, poisoned, ocb, ocb_alive, icb>>
    /\ UNCHANGED lockVars
    /\ UNCHANGED <<bvVars, bufVars, chVars, envVars, shadowVars>>

\* ui_rx.recv().await: a message when one is queued, None when the queue is
\* empty and every Sender is gone, waiting otherwise.  Returning drops both
\* streams.
RunRecv ==
    /\ run_pc = "waiting"
    /\ IF Len(ui_q) > 0
       THEN /\ run_pc' = RunResult(Some(Head(ui_q)))
            /\ ui_q' = Tail(ui_q)
            /\ ui_received' = ui_received + 1
       ELSE /\ gui_pc # "running"
            /\ run_pc' = RunResult(None)
            /\ UNCHANGED <<ui_q, ui_received>>
    /\ UNCHANGED <<gui_pc, registry, poisoned, num_channels, ocb, ocb_alive, icb>>
    /\ UNCHANGED lockVars
    /\ UNCHANGED <<bvVars, bufVars, chVars, envVars, shadowVars>>

\* input_data_fn: deinterlaces the hardware frame into a Buffer Vector that is
\* dropped at once; a panic of deinterlace is a panic of the callback.
InputCallback ==
    /\ run_pc = "waiting"
    /\ icb # "panic"
    /\ \E data \in SeqsUpTo(SampleValues, MaxFrames * num_channels) :
          /\ Len(data) % num_channels = 0
          /\ icb' = IF deinterlace(data, num_channels).ok THEN "ok" ELSE "panic"
    /\ UNCHANGED <<run_pc, gui_pc, ui_q, ui_received, registry, poisoned, num_channels,
                   ocb, ocb_alive>>
    /\ UNCHANGED lockVars
    /\ UNCHANGED <<bvVars, bufVars, chVars, envVars, shadowVars>>

\* Mutex::lock returning at once, whoever holds the lock.
Lockable_always(holder) == TRUE

\* Mutex::lock returns only when nobody holds the lock.
Lockable(holder) == holder = "free"

CoreFrame == UNCHANGED <<bvVars, bufVars, chVars, envVars, shadowVars>>

\* output_data_fn is invoked with a hardware buffer of `len` samples and
\* collects the output Buffer Vector (the registry is not locked yet).
OcbCollect ==
    /\ run_pc = "waiting"
    /\ ocb_alive
    /\ ocb_pc = "idle"
    /\ \E frames \in 0..MaxFrames :
          ocb_run' = [len |-> frames * num_channels,
                      input |-> Collect(OutputBuffers).items,
                      gain |-> None]
    /\ ocb_pc' = "lock"
    /\ UNCHANGED <<run_pc, gui_pc, ui_q, ui_received, registry, poisoned, num_channels,
                   ocb, ocb_alive, icb, lock, gui_upd>>
    /\ CoreFrame

\* let binding = channels.lock().expect("lock failed"): waits for the lock;
\* panics on a poisoned lock, which ends the callback thread.
OcbLock ==
    /\ ocb_pc = "lock"
    /\ Lockable(lock)
    /\ IF poisoned
       THEN /\ ocb' = [called |-> TRUE, len |-> ocb_run.len, result |-> "panic",
                       data |-> BufferNew(ocb_run.len), gain |-> registry.volume]
            /\ ocb_alive' = FALSE
            /\ ocb_pc' = "idle"
            /\ ocb_run' = NoRun
            /\ UNCHANGED lock
       ELSE /\ lock' = "callback"
            /\ ocb_pc' = "locked"
            /\ UNCHANGED <<ocb, ocb_alive, ocb_run>>
    /\ UNCHANGED <<run_pc, gui_pc, ui_q, ui_received, registry, poisoned, num_channels,
                   icb, gui_upd>>
    /\ CoreFrame

\* let channel = binding.first().expect("no channels");
\* input.iter().map(|s| s * channel.volume).collect()
OcbScale ==
    /\ ocb_pc = "locked"
    /\ ocb_run' = [ocb_run EXCEPT !.input = ApplyGain(@, registry.volume),
                                  !.gain = Some(registry.volume)]
    /\ ocb_pc' = "scaled"
    /\ UNCHANGED <<run_pc, gui_pc, ui_q, ui_received, registry, poisoned, num_channels,
                   ocb, ocb_alive, icb, lock, gui_upd>>
    /\ CoreFrame

\* data.copy_from_slice(&input[..data.len()]) and the end of the closure,
\* where the lock is released.  The slice panics when data is longer than
\* input; the lock is held then, so the panic poisons it and ends the
\* callback thread.
OcbCopy ==
    /\ ocb_pc = "scaled"
    /\ IF ocb_run.len > Len(ocb_run.input)
       THEN /\ ocb' = [called |-> TRUE, len |-> ocb_run.len, result |-> "panic",
                       data |-> BufferNew(ocb_run.len), gain |-> ocb_run.gain[1]]
            /\ ocb_alive' = FALSE
            /\ poisoned' = TRUE
       ELSE /\ ocb' = [called |-> TRUE, len |-> ocb_run.len, result |-> "ok",
                       data |-> SubSeq(ocb_run.input, 1, ocb_run.len),
                       gain |-> ocb_run.gain[1]]
            /\ UNCHANGED <<ocb_alive, poisoned>>
    /\ lock' = "free"
    /\ ocb_pc' = "idle"
    /\ ocb_run' = NoRun
    /\ UNCHANGED <<run_pc, gui_pc, ui_q, ui_received, registry, num_channels, icb, gui_upd>>
    /\ CoreFrame

\* eframe calls DirtyUI::update.
GuiUpdate ==
    /\ gui_pc = "running"
    /\ gui_upd = "idle"
    /\ gui_upd' = "lock"
    /\ UNCHANGED <<run_pc, gui_pc, ui_q, ui_received, registry, poisoned, num_channels,
                   ocb, ocb_alive, icb, lock, ocb_pc, ocb_run>>
    /\ CoreFrame

\* let mut channels = self.channels.lock().expect("channels lock failed"):
\* waits for the lock; panics on a poisoned lock, and the unwinding drops the
\* DirtyUI.
GuiLock ==
    /\ gui_upd = "lock"
    /\ Lockable(lock)
    /\ IF poisoned
       THEN /\ gui_pc' = "panicked"
            /\ gui_upd' = "idle"
            /\ UNCHANGED lock
       ELSE /\ lock' = "gui"
            /\ gui_upd' = "volume"
            /\ UNCHANGED gui_pc
    /\ UNCHANGED <<run_pc, ui_q, ui_received, registry, poisoned, num_channels,
                   ocb, ocb_alive, icb, ocb_pc, ocb_run>>
    /\ CoreFrame

\* draw_fader, the volume slider: the user leaves the volume alone, drags it
\* inside 0..=1, or double-clicks it back to 1.
GuiFaderVolume ==
    /\ gui_upd = "volume"
    /\ \E v \in SliderVolumes \cup {registry.volume} :
          registry' = [registry EXCEPT !.volume = v]
    /\ gui_upd' = "panning"
    /\ UNCHANGED <<run_pc, gui_pc, ui_q, ui_received, poisoned, num_channels,
                   ocb, ocb_alive, icb, lock, ocb_pc, ocb_run>>
    /\ CoreFrame

\* draw_fader, the pan slider (inside -1..=1, double-click back to 0), and
\* the end of the closure of update, where the lock is released.
GuiFaderPanning ==
    /\ gui_upd = "panning"
    /\ \E p \in SliderPans \cup {registry.panning} :
          registry' = [registry EXCEPT !.panning = p]
    /\ lock' = "free"
    /\ gui_upd' = "idle"
    /\ UNCHANGED <<run_pc, gui_pc, ui_q, ui_received, poisoned, num_channels,
                   ocb, ocb_alive, icb, ocb_pc, ocb_run>>
    /\ CoreFrame

\* DirtyUI::on_exit: block_on(ui_tx.send(UIMessage::Quit)), its result
\* discarded; the DirtyUI and its Sender are dropped afterwards.
GuiOnExit ==
    /\ gui_pc = "running"
    /\ gui_upd = "idle"
    /\ Len(ui_q) < UICapacity
    /\ ui_q' = IF run_pc \in {"init", "waiting"} THEN Append(ui_q, "Quit") ELSE ui_q
    /\ gui_pc' = "exited"
    /\ UNCHANGED <<run_pc, ui_received, registry, poisoned, num_channels, ocb, ocb_alive, icb>>
    /\ UNCHANGED lockVars
    /\ UNCHANGED <<bvVars, bufVars, chVars, envVars, shadowVars>>

\* The DirtyUI is dropped without on_exit having run.
GuiDrop ==
    /\ gui_pc = "running"
    /\ gui_upd = "idle"
    /\ gui_pc' = "dropped"
    /\ UNCHANGED <<run_pc, ui_q, ui_received, registry, poisoned, num_channels,
                   ocb, ocb_alive, icb>>
    /\ UNCHANGED lockVars
    /\ UNCHANGED <<bvVars, bufVars, chVars, envVars, shadowVars>>

NextCore ==
    RunStart \/ RunRecv \/ InputCallback
    \/ OcbCollect \/ OcbLock \/ OcbScale \/ OcbCopy
    \/ GuiUpdate \/ GuiLock \/ GuiFaderVolume \/ GuiFaderPanning
    \/ GuiOnExit \/ GuiDrop

\* ------------------------------------------------------------ specifications
SpecBuffVec == Init /\ [][NextBuffVec]_vars
SpecBuffer == Init /\ [][NextBuffer]_vars
Spec == Init /\ [][NextChannel]_vars

\* The runtime schedules a task that can run: the channel's own steps are
\* weakly fair.  Nothing obliges the other actors to send, close or drop.
FairSpec == Spec /\ WF_vars(ChannelStep)

\* The channel under a flooding producer; a send waiting on a mailbox is
\* woken as soon as the mailbox has room.
SpecFlood == Init /\ [][NextFlood]_vars
FairFlood == SpecFlood /\ WF_vars(FloodStep) /\ WF_vars(ProducerResume)

\* The channel under a flooding producer, with an orchestrator that answers
\* every GetOutputSystem request.
SpecReconnect == Init /\ [][NextReconnect]_vars
FairReconnect ==
    SpecReconnect /\ WF_vars(ReconnectStep) /\ WF_vars(CoreAnswer) /\ WF_vars(ProducerResume)

\* The orchestrator and the GUI; run is a task of the runtime and is resumed
\* when its recv can return.
SpecCore == Init /\ [][NextCore]_vars
FairCore == SpecCore /\ WF_vars(RunRecv)

\* ================================================================== claims
\* The samples of `samples` at positions i, i + c, i + 2c, ...
EveryNth(samples, i, c) ==
    LET n == Cardinality({j \in 0..(Len(samples) - 1) : j % c = i})
    IN  [k \in 1..n |-> samples[i + (k - 1) * c + 1]]

\* C1 (as stated; refuted by the code): round trip.  For every channel count
\* c >= 1 and every sample sequence whose length is a multiple of c (0
\* included), deinterlace(samples, c) succeeds and the samples its iteration
\* yields up to the first end-of-sequence are exactly `samples`, in order.
C1_RoundTrip ==
    (/\ bv_args.via = "deinterlace"
     /\ bv_args.channels >= 1
     /\ Len(bv_args.samples) % bv_args.channels = 0)
    => (/\ bv_state # "panicked"
        /\ ended => yielded = bv_args.samples)

\* C2 (as stated; refuted by the code): deinterlace correctness.  For every
\* flat sample sequence and every c >= 1, deinterlace returns a Buffer Vector
\* of exactly c channels, channel i holding the samples at i, i + c, i + 2c, ...
C2_DeinterlaceChannels ==
    (bv_args.via = "deinterlace" /\ bv_args.channels >= 1)
    => (/\ bv_state \in {"live", "diverged"}
        /\ Len(bv.data) = bv_args.channels
        /\ \A i \in 0..(bv_args.channels - 1) :
              bv.data[i + 1] = EveryNth(bv_args.samples, i, bv_args.channels))

\* C8 (as stated; refuted by the code): _overdub fails exactly when the
\* operand's length differs from the buffer's, and on success every sample
\* is old + operand.
C8_OverdubFailsOnMismatch ==
    od.called
    => (/\ od.ok <=> (Len(od.operand) = Len(od.before))
        /\ od.ok => (/\ Len(buffer) = Len(od.before)
                     /\ \A i \in 1..Len(od.before) :
                           i <= Len(od.operand) => buffer[i] = od.before[i] + od.operand[i]))

\* C9 (as stated; refuted by the code): a failed _overdub leaves the buffer
\* exactly as it was before the call.
C9_FailedOverdubUnmodified ==
    (od.called /\ ~od.ok) => buffer = od.before

\* C10: get_buffer(index) on a Buffer Vector of k channels fails for every
\* index >= k and for every index < k succeeds with a copy of that channel's
\* samples; the Buffer Vector and its cursor are as before the call.
C10_GetBufferBounds ==
    got.called
    => LET k == bv_args.channels IN
       /\ got.index >= k => ~got.result.ok
       /\ got.index < k => (/\ got.result.ok
                            /\ got.result.value = got.before.data[got.index + 1]
                            /\ bv_args.via = "deinterlace" =>
                                 got.result.value = EveryNth(bv_args.samples, got.index, k)
                            /\ bv_args.via = "new" => got.result.value = <<>>)
       /\ bv = got.before

\* C10 witness: a successful read of a non-empty channel other than the first,
\* made after next() has advanced the cursor.
C10_Witness ==
    /\ got.called
    /\ got.result.ok
    /\ got.index = 1
    /\ got.result.value # <<>>
    /\ bv.outer_pointer > 0

\* The Overdub messages queued in the sinks, and the one about to be sent.
Forwarded ==
    UNION {{sinkQ[s][k] : k \in 1..Len(sinkQ[s])} : s \in SinkIds}

\* C3 (as stated; refuted by the code): sink reconnect neither panics nor
\* blocks.  Once the send of a NewBuffer's batch to a closed sink has failed,
\* the handling of that message completes and the channel is back in its
\* receive loop.
C3_ReconnectCompletes == (ch_pc = "request") ~> (ch_pc = "recv")

\* C4 (as stated; refuted by the code): after a failed forward to a closed
\* sink the channel eventually holds, as its output sink, the handle the
\* orchestrator returned for its GetOutputSystem request.
C4_HoldsFreshHandle ==
    (ch_pc = "request") ~> (installed = "reconnect" /\ ch.output_system # None)

\* C5: the dropped cycle is not retried.  For each NewBuffer message at most
\* one Overdub send is attempted, and the batch of a failed send is in no sink
\* mailbox and is not about to be sent again.
C5_NoRetry ==
    /\ \A i \in 1..MaxSent : attempts[i] <= 1
    /\ \A i \in failed :
          /\ \A e \in Forwarded : e.id # i
          /\ ~(ch_pc = "send" /\ task.id = i)
    /\ \A s1, s2 \in SinkIds : \A k1 \in 1..Len(sinkQ[s1]), k2 \in 1..Len(sinkQ[s2]) :
          sinkQ[s1][k1].id = sinkQ[s2][k2].id => (s1 = s2 /\ k1 = k2)

\* C5 witness: two NewBuffer messages whose sends failed, each attempted once,
\* and the channel back in its receive loop after the second.
C5_Witness ==
    /\ Cardinality(failed) = 2
    /\ \A i \in failed : attempts[i] = 1
    /\ ch_pc = "recv"

\* The routed channel index of an input: c of Mono(c), l of Stereo(l, r).
RoutedIndex(input) == IF input.io = "Mono" THEN input.c ELSE input.l

\* e is a batch made from NewBuffer data e.src by a channel whose input was
\* e.input and whose gain was e.volume when the message was processed.
GainApplied(e) ==
    LET c == RoutedIndex(e.input) IN
    /\ e.input.io \in {"Mono", "Stereo"}
    /\ c < Len(e.src.data)
    /\ Len(e.batch) = Len(e.src.data[c + 1])
    /\ \A i \in 1..Len(e.batch) : e.batch[i] = e.src.data[c + 1][i] * e.volume
    /\ e.volume = 0 => \A i \in 1..Len(e.batch) : e.batch[i] = 0
    /\ e.volume = 1 => e.batch = e.src.data[c + 1]

\* C6: gain application.  Every batch forwarded as Overdub (queued in a sink,
\* or about to be sent) has the length of the routed channel's buffer, and its
\* sample i is that buffer's sample i times the gain the channel had when it
\* processed the NewBuffer; all zeros for gain 0, the buffer itself for gain 1.
C6_GainApplied ==
    /\ \A e \in Forwarded : GainApplied(e)
    /\ ch_pc = "send" => GainApplied(task)

\* C6 witness: a queued batch of two samples made through a Stereo input with
\* a gain other than 1.
C6_Witness ==
    \E e \in Forwarded :
        /\ e.volume = 2
        /\ e.input.io = "Stereo"
        /\ Len(e.batch) = 2

\* C7 (as stated; refuted by the code): with input None the handling of
\* NewBuffer is a no-op and not an error: the task ends without a panic,
\* nothing was sent for the message and the channel is still receiving.
C7_NoneInputIsNoOp ==
    (joined.result # "none" /\ joined.input = IONone)
    => (/\ joined.result = "ok"
        /\ attempts[joined.id] = 0
        /\ \A e \in Forwarded : e.id # joined.id
        /\ bus = <<>>)

\* Length of the shortest channel buffer of a Buffer Vector with channels.
ShortestLen(b) ==
    CHOOSE n \in {Len(b.data[i]) : i \in 1..Len(b.data)} :
        \A i \in 1..Len(b.data) : n <= Len(b.data[i])

\* C18 (as stated; refuted by the code): equal-length invariant.  In every
\* Buffer Vector built by new or deinterlace, for any input length and any
\* channel count, all channel buffers have the same length.
C18_EqualLengths ==
    bv_state \in {"live", "diverged"}
    => \A i, j \in 1..Len(bv.data) : Len(bv.data[i]) = Len(bv.data[j])

\* C19 (as stated; refuted by the code): iteration is bounded by the shortest
\* channel buffer.  Before its first end-of-sequence a Buffer Vector of c
\* channels yields at most c * (shortest length) samples, and no sample whose
\* index within its channel is >= the shortest length (the k-th sample
\* yielded, counting from 0, has index k \div c).
C19_BoundedByShortest ==
    (bv_state = "live" /\ Len(bv.data) >= 1)
    => (/\ Len(yielded) <= Len(bv.data) * ShortestLen(bv)
        /\ \A k \in 0..(Len(yielded) - 1) : k \div Len(bv.data) < ShortestLen(bv))

\* C20: iteration is one-shot.  Once next() has returned end-of-sequence,
\* every later next() on the same instance returns end-of-sequence too.
C20_OneShot ==
    (ended /\ lastNext.called) => lastNext.item = None

\* C20 witness: an instance that yielded samples, ended, and was asked again
\* at least twice after its first end-of-sequence.
C20_Witness ==
    /\ ended
    /\ lastNext.called
    /\ Len(yielded) >= 2
    /\ calls >= Len(yielded) + 3

\* C11 (as stated; refuted by the code): the channel actor leaves the Running
\* state only by processing a Quit message; processing any other message
\* leaves it running.
C11_OnlyQuitStops ==
    [][(MailboxOpen /\ ~MailboxOpen')
       => (ch_pc = "recv" /\ Len(mailbox) > 0 /\ Head(mailbox).type = "Quit")]_vars

\* C15 (as stated; refuted by the code): the orchestrator services its bus.
\* Every GetOutputSystem request placed on the bus is eventually answered
\* with an output sink handle (unless the orchestrator itself has gone).
C15_BusServiced ==
    (Len(bus) > 0) ~> (reply.state = "answered" \/ ~core_alive)

\* C12: messages of one mailbox are processed in arrival order.  A Get is
\* answered with the value of the latest Set of that parameter sent ahead of
\* it (the default if there is none), and a NewBuffer is processed with the
\* gain and the input routing set by the Sets sent ahead of it.
C12_ArrivalOrder ==
    /\ answered.type = "Name" => answered.name = answered.expect
    /\ answered.type = "Volume" => answered.volume = answered.expect
    /\ answered.type = "Panning" => answered.panning = answered.expect
    /\ answered.type = "Input" => answered.input = answered.expect
    /\ answered.type = "Output" => answered.output = answered.expect
    /\ \A e \in Forwarded : e.volume = e.expect.volume /\ e.input = e.expect.input
    /\ ch_pc \in {"send", "request", "await_reply", "self_send"}
          => (task.volume = task.expect.volume /\ task.input = task.expect.input)
    /\ joined.result # "none" => joined.input = joined.expect.input

\* C12 witness: a GetVolume, the third message handled, answered with a
\* volume that only a SetVolume ahead of it can have set.
C12_Witness ==
    /\ answered.type = "Volume"
    /\ answered.volume = 2
    /\ Len(handled) = 3

\* C13: Quit is cooperative.  When run_channel has ended on a Quit, the
\* messages it has taken from the mailbox are exactly those that arrived
\* ahead of the Quit and the Quit itself, in arrival order, each handled to
\* its end (no process_audio task left over); none that arrived after the
\* Quit was taken.
C13_QuitCooperative ==
    ch_pc = "terminated"
    => (/\ quitSeq >= 1
        /\ handled = [i \in 1..quitSeq |-> i]
        /\ task = NoTask)

\* C13 witness: a Quit that arrived third, behind a NewBuffer that was
\* processed, and ahead of a fourth message that was dropped unprocessed.
C13_Witness ==
    /\ ch_pc = "terminated"
    /\ quitSeq = 3
    /\ sent = 4
    /\ joined.id >= 1

\* C16 (as stated; refuted by the code): once both streams are started, run
\* does not return until a shutdown message has been received on the UI
\* channel.
C16_ReturnsOnlyAfterMessage ==
    run_pc \in {"returned_ok", "returned_err"} => ui_received >= 1

\* C16 (amended): once both streams are started, run returns successfully
\* only after it has received a message on the UI channel, and it does return
\* successfully once the GUI's Quit is queued; it returns without a message
\* only with the error "ui tx dropped", when every UI Sender has been dropped
\* and nothing is queued.
C16_ReturnsOkOnlyAfterMessage ==
    /\ [](run_pc = "returned_ok" => ui_received = 1)
    /\ [](run_pc = "returned_err" => (ui_received = 0 /\ gui_pc # "running" /\ ui_q = <<>>))
    /\ ((run_pc = "waiting" /\ Len(ui_q) > 0) ~> (run_pc = "returned_ok"))

\* C16 witness: run has returned Ok after the Quit sent by on_exit.
C16_Witness ==
    /\ run_pc = "returned_ok"
    /\ ui_received = 1
    /\ gui_pc = "exited"

\* C17 (as stated; refuted by the code): every invocation of the output
\* callback with a hardware buffer of length L completes without failure and
\* fills all L positions with the interlaced content of the output Buffer
\* Vector, each sample multiplied by the first channel's gain.
C17_OutputCallbackFills ==
    ocb.called
    => (/\ ocb.result = "ok"
        /\ Len(ocb.data) = ocb.len
        /\ \A i \in 1..ocb.len :
              /\ i <= Len(Collect(OutputBuffers).items)
              /\ ocb.data[i] = Collect(OutputBuffers).items[i] * ocb.gain)

\* C14 (as stated; refuted by the code): a sender to a full bounded mailbox
\* never waits indefinitely, a blocked send eventually enqueues its message
\* or returns a failure, and no mailbox ever holds more messages than its
\* capacity.
C14_SendNeverWaitsForever ==
    /\ [](/\ Len(mailbox) <= ChannelCapacity
          /\ Len(bus) <= BusCapacity
          /\ \A s \in SinkIds : Len(sinkQ[s]) <= SinkCapacity)
    /\ ((producer = "waiting") ~> (producer # "waiting"))

\* C21 (as stated; refuted by the code): iteration is finite.  For every
\* Buffer Vector that new or deinterlace can produce, with any channel count
\* including 0, every call to next() terminates.
C21_NextTerminates == bv_state # "diverged"

\* C22 (as stated; refuted by the code): pan range invariant.  In every
\* reachable state of a Mixer Channel, after any sequence of SetPanning
\* messages and GUI edits, the channel's pan value lies in [-1, 1].
C22_PanInRange ==
    /\ -1 <= ch.panning /\ ch.panning <= 1
    /\ -1 <= registry.panning /\ registry.panning <= 1

\* The NewBuffer at the head of the mailbox is about to be processed by a
\* channel whose routed input index lies outside its Buffer Vector.
OutOfRangeNewBuffer ==
    /\ ch_pc = "recv"
    /\ Len(mailbox) > 0
    /\ Head(mailbox).type = "NewBuffer"
    /\ ch.input.io \in {"Mono", "Stereo"}
    /\ RoutedIndex(ch.input) >= Len(Head(mailbox).data.data)

\* C25: a routed input index outside the incoming Buffer Vector does not take
\* the channel down.  Handling such a NewBuffer forwards nothing to a sink
\* (and requests nothing of the orchestrator), leaves the channel's fields
\* unchanged, and leaves the channel Running, receiving the message behind it.
C25_OutOfRangeSurvives ==
    [][(OutOfRangeNewBuffer /\ handled' # handled)
       => (/\ sinkQ' = sinkQ
           /\ attempts' = attempts
           /\ bus' = bus
           /\ ch' = ch
           /\ task' = NoTask
           /\ ch_pc' = "recv"
           /\ mailbox' = Tail(mailbox))]_vars

\* C25 witness: a NewBuffer routed through Stereo(1, _) or Mono(0) into a
\* Buffer Vector too small for it has been processed without any send having
\* been attempted, and a SetName that arrived behind it has been handled.
C25_Witness ==
    /\ joined.result = "panic"
    /\ joined.input.io \in {"Mono", "Stereo"}
    /\ failed = {}
    /\ joined.expect.name = ""
    /\ ch.name = "kick"
    /\ ch_pc = "recv"

\* C24 (as stated; refuted by the code): with an orchestrator that answers
\* every GetOutputSystem request, a channel whose forward to the sink failed
\* eventually finishes handling that NewBuffer and resumes receiving, however
\* many messages (up to the capacity of 16) other senders have queued in its
\* mailbox meanwhile.
C24_ReconnectResumes ==
    (ch_pc \in {"request", "await_reply", "self_send"})
        ~> (ch_pc = "recv" /\ task = NoTask)

\* C26: the registry lock makes the GUI update and the output callback
\* mutually exclusive.  The two are never inside their locked sections at the
\* same time; from the moment the callback holds the lock to the moment it
\* releases it the registry does not change, so no GUI change to volume or
\* panning takes effect within one invocation; and the gain the invocation
\* scaled its samples by is the first channel's gain for as long as it holds
\* the lock.
C26_LockExcludes ==
    /\ [](~(ocb_pc \in {"locked", "scaled"} /\ gui_upd \in {"volume", "panning"}))
    /\ [](ocb_pc = "scaled" => ocb_run.gain = Some(registry.volume))
    /\ [][(ocb_pc \in {"locked", "scaled"}) => (registry' = registry)]_vars

\* C26 witness: the callback holds the lock and has scaled by a gain that an
\* earlier GUI update set, while the next GUI update waits for the lock.
C26_Witness ==
    /\ ocb_pc = "scaled"
    /\ lock = "callback"
    /\ gui_upd = "lock"
    /\ ocb_run.gain = Some(0)

====
